---------------------------- MODULE Spec2Model ----------------------------
(* Model of lib/models.py: the IoU metric (get_iou), the sample normalizer  *)
(* (GenericUnet.normitem), the model contract of the two concrete variants  *)
(* (get_name / get_model) and the trainer (init_run, fit, get_val_sample).  *)
(*                                                                          *)
(* Three specifications share the variables:                                *)
(*   Spec      the trainer object, single-threaded, statement by statement  *)
(*   SpecNorm  normitem applied to bounded inputs                           *)
(*   SpecIou   get_iou applied to bounded inputs                            *)
EXTENDS Integers, Sequences, FiniteSets, TLC

\* ------------------------------------------------------------------ bounds
MaxBS == 2
MaxTr == 3
MaxVal == 2
MaxEpochs == 2
MaxCalls == 2
MaxFaults == 1
MaxClock == 0
MaxDim == 6
MaxNB == 1
MaxLabel == 3
MaxCells == 4

\* ------------------------------------------------------- program constants
CropMargin == 2
TargetClass == 2
Channels == 3
NumClasses == 2

NoAttr == "<unset>"
NoIter == [pos |-> 0, len |-> 0, bs |-> 0, live |-> FALSE]
NoBatch == [idx |-> 0, size |-> 0]
NoPartition == [nsamples |-> 0, batch_size |-> 0, order |-> 0]
EmptyKw == [key \in {} |-> ""]
NoArray == [shape |-> <<>>, at |-> <<>>]

VARIABLES
    \* the trainer object (self) and its collaborators
    variant, sm_keywords, backbone, run_name, model, opt,
    tr, val, params,
    \* control: position of the single thread, the pending exception
    pc, err, raisedAt, lastOp, calls, faults,
    \* locals of fit
    epochs, epoch, tr_iter, gen_val, val_batch,
    \* locals of get_val_sample
    n, batch_size_backup, gvs_batch,
    \* observation of the current call: tracking-sink log, statement trace
    wandb_log, stepEv, k, nOpt, params0, nCreate, nPullFail, order0,
    \* normitem input / output
    nx, nl, nx_out, nl_out, ndone,
    \* get_iou input / output
    class_number, y_true, y_pred, iou_batch, idone

trainerVars == <<variant, sm_keywords, backbone, run_name, model, opt, tr, val,
                 params, pc, err, raisedAt, lastOp, calls, faults, epochs, epoch,
                 tr_iter, gen_val, val_batch, n, batch_size_backup, gvs_batch,
                 wandb_log, stepEv, k, nOpt, params0, nCreate, nPullFail, order0>>
normVars == <<nx, nl, nx_out, nl_out, ndone>>
iouVars == <<class_number, y_true, y_pred, iou_batch, idone>>
vars == <<trainerVars, normVars, iouVars>>

Max(a, b) == IF a >= b THEN a ELSE b
Min(a, b) == IF a <= b THEN a ELSE b


\* =================================================================
\* Arrays.  An array is [shape, at]: at maps every index tuple of the
\* shape (1-based) to its cell.
\* =================================================================
Idx3(B, H, W) == (1..B) \X (1..H) \X (1..W)
Idx4(B, H, W, C) == (1..B) \X (1..H) \X (1..W) \X (1..C)

\* Python's slice bound: a negative bound counts from the end, and both
\* bounds are clipped to [0, len].
PyBound(i, len) == IF i < 0 THEN Max(len + i, 0) ELSE Min(i, len)
\* a[lo:hi] over an axis of length len: first source offset and length.
SliceLo(lo, hi, len) == PyBound(lo, len)
SliceLen(lo, hi, len) == Max(PyBound(hi, len) - PyBound(lo, len), 0)

\* x[:, 2:-2, 2:-2, :]
CropX(x) ==
    LET B == x.shape[1]  H == x.shape[2]  W == x.shape[3]  C == x.shape[4]
        H2 == SliceLen(CropMargin, -CropMargin, H)
        W2 == SliceLen(CropMargin, -CropMargin, W)
        r0 == SliceLo(CropMargin, -CropMargin, H)
        c0 == SliceLo(CropMargin, -CropMargin, W)
    IN [shape |-> <<B, H2, W2, C>>,
        at |-> [t \in Idx4(B, H2, W2, C) |-> x.at[<<t[1], r0 + t[2], c0 + t[3], t[4]>>]]]

\* Variant of CropL: l[:, 2:-1, 2:-2], the lower margin one short.
CropL_Asymmetric(l) ==
    LET B == l.shape[1]  H == l.shape[2]  W == l.shape[3]
        H2 == SliceLen(CropMargin, 1 - CropMargin, H)
        W2 == SliceLen(CropMargin, -CropMargin, W)
        r0 == SliceLo(CropMargin, 1 - CropMargin, H)
        c0 == SliceLo(CropMargin, -CropMargin, W)
    IN [shape |-> <<B, H2, W2>>,
        at |-> [t \in Idx3(B, H2, W2) |-> l.at[<<t[1], r0 + t[2], c0 + t[3]>>]]]

\* l[:, 2:-2, 2:-2]
CropL(l) ==
    LET B == l.shape[1]  H == l.shape[2]  W == l.shape[3]
        H2 == SliceLen(CropMargin, -CropMargin, H)
        W2 == SliceLen(CropMargin, -CropMargin, W)
        r0 == SliceLo(CropMargin, -CropMargin, H)
        c0 == SliceLo(CropMargin, -CropMargin, W)
    IN [shape |-> <<B, H2, W2>>,
        at |-> [t \in Idx3(B, H2, W2) |-> l.at[<<t[1], r0 + t[2], c0 + t[3]>>]]]

\* (l == 2).astype(np.float32)
Binarize(l) ==
    [shape |-> l.shape,
     at |-> [t \in DOMAIN l.at |-> IF l.at[t] = TargetClass THEN 1 ELSE 0]]

normitem(x, l) == [x |-> CropX(x), l |-> Binarize(CropL(l))]

\* ---- inputs of normitem: every shape up to MaxDim, a label map that is
\* bg everywhere except (possibly) one cell holding v; the image cell
\* carries its own coordinates so that a crop is observable.
ImageOf(B, H, W) ==
    [shape |-> <<B, H, W, Channels>>,
     at |-> [t \in Idx4(B, H, W, Channels) |-> t]]
LabelsOf(B, H, W, bg, sp, v) ==
    [shape |-> <<B, H, W>>,
     at |-> [t \in Idx3(B, H, W) |-> IF t = sp THEN v ELSE bg]]

NormIdle ==
    /\ nx = NoArray /\ nl = NoArray /\ nx_out = NoArray /\ nl_out = NoArray
    /\ ndone = FALSE

NormInit ==
    \E B \in 1..MaxNB, H \in 0..MaxDim, W \in 0..MaxDim,
       bg \in 0..MaxLabel, v \in 0..MaxLabel :
      \E sp \in Idx3(B, H, W) \cup {<<0, 0, 0>>} :
        /\ nx = ImageOf(B, H, W)
        /\ nl = LabelsOf(B, H, W, bg, sp, v)
        /\ nx_out = NoArray /\ nl_out = NoArray
        /\ ndone = FALSE

NormApply ==
    /\ ~ndone
    /\ nx_out' = normitem(nx, nl).x
    /\ nl_out' = normitem(nx, nl).l
    /\ ndone' = TRUE
    /\ UNCHANGED <<nx, nl>>

\* =================================================================
\* get_iou.  A batch is [shape, flat]: shape[1] is the batch size, the
\* remaining axes are the element's map, stored row-major in flat.
\* =================================================================
RECURSIVE Prod(_)
Prod(s) == IF s = <<>> THEN 1 ELSE Head(s) * Prod(Tail(s))
ElemSize(y) == Prod(Tail(y.shape))
\* y[i] as the sequence of its cells
Elem(y, i) == [j \in 1..ElemSize(y) |-> y.flat[(i - 1) * ElemSize(y) + j]]
\* (y == class_number).astype(int)
EqClass(y, c) == [shape |-> y.shape,
                  flat |-> [j \in DOMAIN y.flat |-> IF y.flat[j] = c THEN 1 ELSE 0]]

\* Variant of UnionCount: counts the cells where exactly one map has the class.
UnionCount_Xor(ct, cp) == Cardinality({j \in DOMAIN ct : ct[j] + cp[j] = 1})

\* ((cy_true[i]+cy_pred[i])>=1).sum()
UnionCount(ct, cp) == Cardinality({j \in DOMAIN ct : ct[j] + cp[j] >= 1})
\* ((cy_true[i]+cy_pred[i])==2).sum()
IntersectionCount(ct, cp) == Cardinality({j \in DOMAIN ct : ct[j] + cp[j] = 2})
\* Variant of IouOf: an empty union scores 0.
IouOf_ZeroWhenEmpty(union, intersection) ==
    IF union = 0 THEN [num |-> 0, den |-> 1]
                 ELSE [num |-> intersection, den |-> union]

\* 1 if union==0 else intersection/union, as the fraction num/den
IouOf(union, intersection) ==
    IF union = 0 THEN [num |-> 1, den |-> 1]
                 ELSE [num |-> intersection, den |-> union]

get_iou(c, yt, yp) ==
    LET cy_pred == EqClass(yp, c)
        cy_true == EqClass(yt, c)
    IN [i \in 1..cy_pred.shape[1] |->
          IouOf(UnionCount(Elem(cy_true, i), Elem(cy_pred, i)),
                IntersectionCount(Elem(cy_true, i), Elem(cy_pred, i)))]

IouShapes ==
    {<<b, c>> : b \in 0..MaxCells, c \in 1..MaxCells}
    \cup {<<b, h, w>> : b \in 1..MaxCells, h \in 2..MaxCells, w \in 2..MaxCells}
BatchesOf(shape) ==
    {[shape |-> shape, flat |-> f] : f \in [1..Prod(shape) -> 0..(NumClasses - 1)]}

IouIdle ==
    /\ class_number = 0 /\ y_true = [shape |-> <<0, 1>>, flat |-> <<>>]
    /\ y_pred = [shape |-> <<0, 1>>, flat |-> <<>>]
    /\ iou_batch = <<>> /\ idone = FALSE

IouInit ==
    \E shape \in {s \in IouShapes : Prod(s) <= MaxCells} :
      /\ class_number \in 0..NumClasses
      /\ y_true \in BatchesOf(shape)
      /\ y_pred \in BatchesOf(shape)
      /\ iou_batch = <<>>
      /\ idone = FALSE

IouApply ==
    /\ ~idone
    /\ iou_batch' = get_iou(class_number, y_true, y_pred)
    /\ idone' = TRUE
    /\ UNCHANGED <<class_number, y_true, y_pred>>


\* =================================================================
\* The model contract of the two concrete variants.
\* =================================================================
Variants == {"custom", "sm"}
Returned(v) == [ok |-> TRUE, val |-> v]
Raised(exc) == [ok |-> FALSE, val |-> exc]

\* CustomUnetSegmentation.get_name returns the literal "custom_unet";
\* SMUnetSegmentation.get_name formats self.backbone, an attribute that only
\* get_model assigns: reading it earlier raises AttributeError.
get_name(v, bb) ==
    IF v = "custom" THEN Returned(<<"custom", "_unet">>)
    ELSE IF bb = NoAttr THEN Raised("AttributeError")
    ELSE Returned(<<bb, "_unet">>)

\* get_model: [res, backbone]: the result and self.backbone afterwards.
\* The custom variant builds its layer graph.  The backbone variant first
\* assigns self.backbone = self.sm_keywords['backbone_name'] (KeyError when
\* the keyword is missing) and then evaluates sm.Unet, where sm is a name the
\* module never binds (NameError).
get_model(v, kw, bb) ==
    IF v = "custom" THEN [res |-> Returned("unet"), backbone |-> bb]
    ELSE IF "backbone_name" \notin DOMAIN kw
         THEN [res |-> Raised("KeyError"), backbone |-> bb]
         ELSE [res |-> Raised("NameError"), backbone |-> kw["backbone_name"]]

\* =================================================================
\* The data-generator collaborator (data.S2LandcoverDataGenerator): a
\* partition of nsamples samples served in batches of batch_size; order
\* counts the reshuffles.
\* =================================================================
CeilDiv(a, b) == (a + b - 1) \div b
PartLen(p) == CeilDiv(p.nsamples, p.batch_size)
on_epoch_end(p) == [p EXCEPT !.order = @ + 1]
IterOf(p) == [pos |-> 0, len |-> PartLen(p), bs |-> p.batch_size, live |-> TRUE]
\* it.__next__(): the batch and the advanced iterator, or the exception.
\* fault stands for a failure other than end-of-sequence (an I/O error, an
\* interrupt) raised while the batch is produced.
IterNext(it, fault) ==
    IF fault THEN [ok |-> FALSE, exc |-> "Fault", batch |-> NoBatch, it |-> it]
    ELSE IF it.pos < it.len
         THEN [ok |-> TRUE, exc |-> "none",
               batch |-> [idx |-> it.pos + 1, size |-> it.bs],
               it |-> [it EXCEPT !.pos = @ + 1]]
         ELSE [ok |-> FALSE, exc |-> "StopIteration", batch |-> NoBatch, it |-> it]

\* =================================================================
\* The trainer.
\* =================================================================
selfVars == <<variant, sm_keywords, backbone, run_name, model, opt>>
fitLocals == <<epochs, epoch, tr_iter, gen_val, val_batch>>
gvsLocals == <<n, batch_size_backup, gvs_batch>>
callObs == <<k, nOpt, params0, nCreate, nPullFail, order0>>

TrainerInit ==
    /\ variant \in Variants
    /\ sm_keywords \in IF variant = "sm"
                       THEN {EmptyKw, [key \in {"backbone_name"} |-> "resnet34"]}
                       ELSE {EmptyKw}
    /\ backbone = NoAttr /\ run_name = NoAttr /\ model = NoAttr /\ opt = NoAttr
    /\ tr = NoPartition /\ val = NoPartition /\ params = 0
    /\ pc = "uninit" /\ err = "none" /\ raisedAt = "none" /\ lastOp = "none"
    /\ calls = 0 /\ faults = 0
    /\ epochs = 0 /\ epoch = 0 /\ tr_iter = NoIter /\ gen_val = NoIter
    /\ val_batch = NoBatch
    /\ n = 0 /\ batch_size_backup = 0 /\ gvs_batch = NoBatch
    /\ wandb_log = <<>> /\ stepEv = <<>>
    /\ k = 0 /\ nOpt = 0 /\ params0 = 0 /\ nCreate = 0 /\ nPullFail = 0 /\ order0 = 0

TrainerIdle ==
    /\ variant = "custom" /\ sm_keywords = EmptyKw
    /\ backbone = NoAttr /\ run_name = NoAttr /\ model = NoAttr /\ opt = NoAttr
    /\ tr = NoPartition /\ val = NoPartition /\ params = 0
    /\ pc = "uninit" /\ err = "none" /\ raisedAt = "none" /\ lastOp = "none"
    /\ calls = 0 /\ faults = 0
    /\ epochs = 0 /\ epoch = 0 /\ tr_iter = NoIter /\ gen_val = NoIter
    /\ val_batch = NoBatch
    /\ n = 0 /\ batch_size_backup = 0 /\ gvs_batch = NoBatch
    /\ wandb_log = <<>> /\ stepEv = <<>>
    /\ k = 0 /\ nOpt = 0 /\ params0 = 0 /\ nCreate = 0 /\ nPullFail = 0 /\ order0 = 0

\* An exception leaves the running method: control is back with the caller.
Raise(exc, where, back) ==
    /\ pc' = back /\ err' = exc /\ raisedAt' = where

\* The fault input of one pull, within the budget of the call.
FaultChoices == IF faults < MaxFaults THEN {FALSE, TRUE} ELSE {FALSE}

\* ---- init_run, lines 44-46: learning rate, run name from get_name() and
\* the clock.
InitRunName ==
    /\ pc = "uninit"
    /\ lastOp' = "init_run"
    /\ \E now \in 0..MaxClock :
         LET r == get_name(variant, backbone) IN
           IF r.ok
           THEN /\ run_name' = <<r.val, now>>
                /\ pc' = "init_model" /\ err' = "none" /\ raisedAt' = "none"
           ELSE /\ Raise(r.val, "get_name", "uninit")
                /\ UNCHANGED run_name
    /\ UNCHANGED <<variant, sm_keywords, backbone, model, opt, tr, val, params,
                   calls, faults, fitLocals, gvsLocals, wandb_log, stepEv, callObs>>

\* ---- init_run, lines 48-79: model, optimizer, the three partitions, the
\* tracking run.
InitRunBuild ==
    /\ pc = "init_model"
    /\ LET m == get_model(variant, sm_keywords, backbone) IN
         /\ backbone' = m.backbone
         /\ IF m.res.ok
            THEN /\ model' = m.res.val /\ opt' = "Adam"
                 /\ \E bs \in 1..MaxBS, ntr \in 0..MaxTr, nval \in 0..MaxVal :
                      /\ tr' = [nsamples |-> ntr, batch_size |-> bs, order |-> 0]
                      /\ val' = [nsamples |-> nval, batch_size |-> bs, order |-> 0]
                 /\ pc' = "ready" /\ UNCHANGED <<err, raisedAt>>
            ELSE /\ Raise(m.res.val, "get_model", "uninit")
                 /\ UNCHANGED <<model, opt, tr, val>>
    /\ UNCHANGED <<variant, sm_keywords, run_name, params, lastOp, calls, faults,
                   fitLocals, gvsLocals, wandb_log, stepEv, callObs>>

\* ---- fit, lines 131-133: gen_val = iter(self.val)
FitCall ==
    /\ pc = "ready" /\ calls < MaxCalls
    /\ \E e \in 0..MaxEpochs : epochs' = e
    /\ calls' = calls + 1 /\ lastOp' = "fit"
    /\ err' = "none" /\ raisedAt' = "none" /\ faults' = 0
    /\ gen_val' = IterOf(val)
    /\ epoch' = 0 /\ tr_iter' = NoIter /\ val_batch' = NoBatch
    /\ wandb_log' = <<>> /\ stepEv' = <<>>
    /\ k' = 0 /\ nOpt' = 0 /\ params0' = params /\ nCreate' = 1 /\ nPullFail' = 0
    /\ pc' = "fit_for_epoch"
    /\ UNCHANGED <<selfVars, tr, val, params, gvsLocals, order0>>

\* Variant of FitForEpoch: the validation iterator is created anew at the
\* start of every epoch.
FitForEpoch_Recreate ==
    /\ pc = "fit_for_epoch"
    /\ IF epoch < epochs
       THEN /\ tr_iter' = IterOf(tr) /\ pc' = "fit_for_batch"
            /\ gen_val' = IterOf(val)
       ELSE /\ tr_iter' = NoIter /\ pc' = "ready" /\ UNCHANGED gen_val
    /\ UNCHANGED <<selfVars, tr, val, params, err, raisedAt, lastOp, calls, faults,
                   epochs, epoch, val_batch, gvsLocals, wandb_log, stepEv,
                   callObs>>

\* ---- fit, lines 135-137: for epoch in range(epochs): ... for ... in
\* pbar(self.tr); the loop ends and fit returns when the range is used up.
FitForEpoch ==
    /\ pc = "fit_for_epoch"
    /\ IF epoch < epochs
       THEN /\ tr_iter' = IterOf(tr) /\ pc' = "fit_for_batch"
       ELSE /\ tr_iter' = NoIter /\ pc' = "ready"
    /\ UNCHANGED <<selfVars, tr, val, params, err, raisedAt, lastOp, calls, faults,
                   epochs, epoch, gen_val, val_batch, gvsLocals, wandb_log, stepEv,
                   callObs>>

\* ---- fit, line 137: the for statement pulls the next training batch; the
\* end of the sequence ends the epoch, any other failure leaves fit.
FitForBatch ==
    /\ pc = "fit_for_batch"
    /\ \E f \in FaultChoices :
         LET r == IterNext(tr_iter, f) IN
           /\ faults' = IF f THEN faults + 1 ELSE faults
           /\ IF r.ok
              THEN /\ tr_iter' = r.it /\ pc' = "fit_train"
                   /\ UNCHANGED <<epoch, err, raisedAt>>
              ELSE IF r.exc = "StopIteration"
              THEN /\ epoch' = epoch + 1 /\ pc' = "fit_for_epoch"
                   /\ UNCHANGED <<tr_iter, err, raisedAt>>
              ELSE /\ Raise(r.exc, "train_pull", "ready")
                   /\ UNCHANGED <<tr_iter, epoch>>
    /\ UNCHANGED <<selfVars, tr, val, params, lastOp, calls, epochs, gen_val,
                   val_batch, gvsLocals, wandb_log, stepEv, callObs>>

\* ---- fit, lines 139-147: normalize, forward, loss, gradients, one
\* optimizer step on the model's trainable variables.
FitTrainStep ==
    /\ pc = "fit_train"
    /\ params' = params + 1
    /\ k' = k + 1 /\ nOpt' = nOpt + 1
    /\ stepEv' = <<"opt">>
    /\ pc' = "fit_log_train"
    /\ UNCHANGED <<selfVars, tr, val, err, raisedAt, lastOp, calls, faults,
                   fitLocals, gvsLocals, wandb_log, params0, nCreate, nPullFail,
                   order0>>

\* ---- fit, line 148: wandb.log({"train/loss": loss})
FitLogTrain ==
    /\ pc = "fit_log_train"
    /\ wandb_log' = Append(wandb_log, "train/loss")
    /\ stepEv' = Append(stepEv, "train/loss")
    /\ pc' = "fit_try_val"
    /\ UNCHANGED <<selfVars, tr, val, params, err, raisedAt, lastOp, calls, faults,
                   fitLocals, gvsLocals, callObs>>

\* Variant of FitTryVal: the handler catches end-of-sequence only, any other
\* failure of the pull leaves fit at once.
FitTryVal_StopIterationOnly ==
    /\ pc = "fit_try_val"
    /\ \E f \in FaultChoices :
         LET r == IterNext(gen_val, f) IN
           /\ faults' = IF f THEN faults + 1 ELSE faults
           /\ IF r.ok
              THEN /\ gen_val' = r.it /\ val_batch' = r.batch
                   /\ stepEv' = Append(stepEv, "pull")
                   /\ pc' = "fit_val" /\ UNCHANGED <<nPullFail, err, raisedAt>>
              ELSE IF r.exc = "StopIteration"
              THEN /\ stepEv' = Append(stepEv, r.exc)
                   /\ nPullFail' = nPullFail + 1
                   /\ pc' = "fit_except_val"
                   /\ UNCHANGED <<gen_val, val_batch, err, raisedAt>>
              ELSE /\ stepEv' = Append(stepEv, r.exc)
                   /\ Raise(r.exc, "val_pull", "ready")
                   /\ UNCHANGED <<gen_val, val_batch, nPullFail>>
    /\ UNCHANGED <<selfVars, tr, val, params, lastOp, calls,
                   epochs, epoch, tr_iter, gvsLocals, wandb_log,
                   k, nOpt, params0, nCreate, order0>>

\* ---- fit, lines 150-152: try: gen_val.__next__()  except: (bare)
FitTryVal ==
    /\ pc = "fit_try_val"
    /\ \E f \in FaultChoices :
         LET r == IterNext(gen_val, f) IN
           /\ faults' = IF f THEN faults + 1 ELSE faults
           /\ IF r.ok
              THEN /\ gen_val' = r.it /\ val_batch' = r.batch
                   /\ stepEv' = Append(stepEv, "pull")
                   /\ pc' = "fit_val" /\ UNCHANGED nPullFail
              ELSE /\ stepEv' = Append(stepEv, r.exc)
                   /\ nPullFail' = nPullFail + 1
                   /\ pc' = "fit_except_val" /\ UNCHANGED <<gen_val, val_batch>>
    /\ UNCHANGED <<selfVars, tr, val, params, err, raisedAt, lastOp, calls,
                   epochs, epoch, tr_iter, gvsLocals, wandb_log,
                   k, nOpt, params0, nCreate, order0>>

\* Variant of FitExceptVal: the handler pulls again from the old iterator
\* without creating a new one.
FitExceptVal_NoRecreate ==
    /\ pc = "fit_except_val"
    /\ nCreate' = nCreate + 1
    /\ \E f \in FaultChoices :
         LET r == IterNext(gen_val, f) IN
           /\ faults' = IF f THEN faults + 1 ELSE faults
           /\ gen_val' = r.it
           /\ IF r.ok
              THEN /\ val_batch' = r.batch
                   /\ stepEv' = stepEv \o <<"recreate", "pull">>
                   /\ pc' = "fit_val" /\ UNCHANGED <<err, raisedAt>>
              ELSE /\ stepEv' = stepEv \o <<"recreate", r.exc>>
                   /\ Raise(r.exc, "val_pull", "ready")
                   /\ UNCHANGED val_batch
    /\ UNCHANGED <<selfVars, tr, val, params, lastOp, calls, epochs, epoch,
                   tr_iter, gvsLocals, wandb_log, k, nOpt, params0, nPullFail,
                   order0>>

\* ---- fit, lines 153-154: gen_val = iter(self.val); gen_val.__next__()
\* outside any try: a failure here leaves fit.
FitExceptVal ==
    /\ pc = "fit_except_val"
    /\ nCreate' = nCreate + 1
    /\ \E f \in FaultChoices :
         LET r == IterNext(IterOf(val), f) IN
           /\ faults' = IF f THEN faults + 1 ELSE faults
           /\ gen_val' = r.it
           /\ IF r.ok
              THEN /\ val_batch' = r.batch
                   /\ stepEv' = stepEv \o <<"recreate", "pull">>
                   /\ pc' = "fit_val" /\ UNCHANGED <<err, raisedAt>>
              ELSE /\ stepEv' = stepEv \o <<"recreate", r.exc>>
                   /\ Raise(r.exc, "val_pull", "ready")
                   /\ UNCHANGED val_batch
    /\ UNCHANGED <<selfVars, tr, val, params, lastOp, calls, epochs, epoch,
                   tr_iter, gvsLocals, wandb_log, k, nOpt, params0, nPullFail,
                   order0>>

\* Variant of FitValStep: the validation pass takes an optimizer step too.
FitValStep_Trains ==
    /\ pc = "fit_val"
    /\ params' = params + 1
    /\ wandb_log' = Append(wandb_log, "val/loss")
    /\ stepEv' = Append(stepEv, "val/loss")
    /\ pc' = "fit_for_batch"
    /\ UNCHANGED <<selfVars, tr, val, err, raisedAt, lastOp, calls, faults,
                   fitLocals, gvsLocals, callObs>>

\* ---- fit, lines 156-159: normalize, predict, validation loss,
\* wandb.log({"val/loss": val_loss})
FitValStep ==
    /\ pc = "fit_val"
    /\ wandb_log' = Append(wandb_log, "val/loss")
    /\ stepEv' = Append(stepEv, "val/loss")
    /\ pc' = "fit_for_batch"
    /\ UNCHANGED <<selfVars, tr, val, params, err, raisedAt, lastOp, calls, faults,
                   fitLocals, gvsLocals, callObs>>


\* Variant of GvsCall: the batch size is backed up but never overridden.
GvsCall_NoOverride ==
    /\ pc = "ready" /\ calls < MaxCalls
    /\ calls' = calls + 1 /\ lastOp' = "get_val_sample"
    /\ err' = "none" /\ raisedAt' = "none" /\ faults' = 0
    /\ \E m \in 1..MaxBS : n' = m
    /\ batch_size_backup' = val.batch_size
    /\ gvs_batch' = NoBatch
    /\ stepEv' = <<"set_n">>
    /\ order0' = val.order
    /\ pc' = "gvs_reset"
    /\ UNCHANGED <<selfVars, tr, val, params, fitLocals, wandb_log,
                   k, nOpt, params0, nCreate, nPullFail>>

\* ---- get_val_sample, lines 81-83: back up the batch size, override it
GvsCall ==
    /\ pc = "ready" /\ calls < MaxCalls
    /\ calls' = calls + 1 /\ lastOp' = "get_val_sample"
    /\ err' = "none" /\ raisedAt' = "none" /\ faults' = 0
    /\ \E m \in 1..MaxBS :
         /\ n' = m
         /\ val' = [val EXCEPT !.batch_size = m]
    /\ batch_size_backup' = val.batch_size
    /\ gvs_batch' = NoBatch
    /\ stepEv' = <<"set_n">>
    /\ order0' = val.order
    /\ pc' = "gvs_reset"
    /\ UNCHANGED <<selfVars, tr, params, fitLocals, wandb_log,
                   k, nOpt, params0, nCreate, nPullFail>>

\* ---- get_val_sample, line 84: self.val.on_epoch_end()
GvsReset ==
    /\ pc = "gvs_reset"
    /\ val' = on_epoch_end(val)
    /\ stepEv' = Append(stepEv, "on_epoch_end")
    /\ pc' = "gvs_draw"
    /\ UNCHANGED <<selfVars, tr, params, err, raisedAt, lastOp, calls, faults,
                   fitLocals, gvsLocals, wandb_log, callObs>>

\* ---- get_val_sample, lines 85-86: gen_val = iter(self.val);
\* gen_val.__next__() -- no handler: a failure leaves get_val_sample here.
GvsDraw ==
    /\ pc = "gvs_draw"
    /\ \E f \in FaultChoices :
         LET r == IterNext(IterOf(val), f) IN
           /\ faults' = IF f THEN faults + 1 ELSE faults
           /\ IF r.ok
              THEN /\ gvs_batch' = r.batch
                   /\ stepEv' = Append(stepEv, "draw")
                   /\ pc' = "gvs_predict" /\ UNCHANGED <<err, raisedAt>>
              ELSE /\ Raise(r.exc, "val_draw", "ready")
                   /\ UNCHANGED <<gvs_batch, stepEv>>
    /\ UNCHANGED <<selfVars, tr, val, params, lastOp, calls, fitLocals,
                   n, batch_size_backup, wandb_log, callObs>>

\* ---- get_val_sample, lines 87-88: normitem, predict(...).numpy()
GvsPredict ==
    /\ pc = "gvs_predict"
    /\ pc' = "gvs_restore"
    /\ UNCHANGED <<selfVars, tr, val, params, err, raisedAt, lastOp, calls, faults,
                   fitLocals, gvsLocals, wandb_log, stepEv, callObs>>

\* ---- get_val_sample, line 91: self.val.batch_size = batch_size_backup
GvsRestore ==
    /\ pc = "gvs_restore"
    /\ val' = [val EXCEPT !.batch_size = batch_size_backup]
    /\ stepEv' = Append(stepEv, "restore")
    /\ pc' = "gvs_reset2"
    /\ UNCHANGED <<selfVars, tr, params, err, raisedAt, lastOp, calls, faults,
                   fitLocals, gvsLocals, wandb_log, callObs>>

\* ---- get_val_sample, lines 92-93: self.val.on_epoch_end(); return
GvsReset2 ==
    /\ pc = "gvs_reset2"
    /\ val' = on_epoch_end(val)
    /\ stepEv' = Append(stepEv, "on_epoch_end")
    /\ pc' = "ready"
    /\ UNCHANGED <<selfVars, tr, params, err, raisedAt, lastOp, calls, faults,
                   fitLocals, gvsLocals, wandb_log, callObs>>

\* =================================================================
\* Specifications
\* =================================================================
Init == TrainerInit /\ NormIdle /\ IouIdle

Next ==
    \/ InitRunName /\ UNCHANGED <<normVars, iouVars>>
    \/ InitRunBuild /\ UNCHANGED <<normVars, iouVars>>
    \/ FitCall /\ UNCHANGED <<normVars, iouVars>>
    \/ FitForEpoch /\ UNCHANGED <<normVars, iouVars>>
    \/ FitForBatch /\ UNCHANGED <<normVars, iouVars>>
    \/ FitTrainStep /\ UNCHANGED <<normVars, iouVars>>
    \/ FitLogTrain /\ UNCHANGED <<normVars, iouVars>>
    \/ FitTryVal /\ UNCHANGED <<normVars, iouVars>>
    \/ FitExceptVal /\ UNCHANGED <<normVars, iouVars>>
    \/ FitValStep /\ UNCHANGED <<normVars, iouVars>>
    \/ GvsCall /\ UNCHANGED <<normVars, iouVars>>
    \/ GvsReset /\ UNCHANGED <<normVars, iouVars>>
    \/ GvsDraw /\ UNCHANGED <<normVars, iouVars>>
    \/ GvsPredict /\ UNCHANGED <<normVars, iouVars>>
    \/ GvsRestore /\ UNCHANGED <<normVars, iouVars>>
    \/ GvsReset2 /\ UNCHANGED <<normVars, iouVars>>

Spec == Init /\ [][Next]_vars

InitNorm == TrainerIdle /\ NormInit /\ IouIdle
NextNorm == NormApply /\ UNCHANGED <<trainerVars, iouVars>>
SpecNorm == InitNorm /\ [][NextNorm]_vars

InitIou == TrainerIdle /\ NormIdle /\ IouInit
NextIou == IouApply /\ UNCHANGED <<trainerVars, normVars>>
SpecIou == InitIou /\ [][NextIou]_vars


\* =================================================================
\* Properties
\* =================================================================
InFit == lastOp = "fit"
InGvs == lastOp = "get_val_sample"
FitReturned == InFit /\ pc = "ready" /\ err = "none"
GvsReturned == InGvs /\ pc = "ready" /\ err = "none"
PullFailures == {"StopIteration", "Fault"}
V == PartLen(val)
T == PartLen(tr)

\* ---- C1 as stated: once fit has run more training steps than the
\* validation partition has batches per pass, the validation pull has not
\* raised out of fit.
C1_NeverRaises ==
    (InFit /\ val.batch_size > 0 /\ k > V) => raisedAt # "val_pull"

\* ---- C1 (amended): the validation pull raises out of fit only when the
\* pull from the freshly recreated iterator fails as well -- the partition
\* yields no batch at all, or that pull fails for a reason other than
\* end-of-sequence; otherwise, after the iterator is exhausted, the batch
\* pulled next is the first batch of a fresh iterator over the partition.
C1_CyclicValidation ==
    InFit =>
      /\ raisedAt = "val_pull" => (V = 0 \/ err = "Fault")
      /\ (pc = "fit_val" /\ Len(stepEv) = 5 /\ stepEv[3] = "StopIteration") =>
            /\ val_batch = [idx |-> 1, size |-> val.batch_size]
            /\ gen_val = [IterOf(val) EXCEPT !.pos = 1]

C1_Witness ==
    /\ InFit /\ pc = "fit_val" /\ V >= 2 /\ k > V
    /\ Len(stepEv) = 5 /\ stepEv[3] = "StopIteration"
    /\ val_batch.idx = 1

\* ---- C2 as stated: once get_val_sample(n) is over, the validation
\* partition's batch_size is the value it had before the call.
C2_RestoresBatchSize ==
    (InGvs /\ pc = "ready") => val.batch_size = batch_size_backup

\* ---- C6 as stated: get_name() returns a string when init_run builds the
\* run name, for every variant, so init_run gets past the run name.
C6_GetNameAtInitRun ==
    ~(lastOp = "init_run" /\ raisedAt = "get_name")

\* ---- C7: in fit the parameters are written once per training batch, by
\* the optimizer step and by nothing else; every step is optimizer update,
\* train/loss, validation pull, val/loss; the sink receives train/loss and
\* val/loss strictly alternating, and a fit that returns has done
\* epochs*T steps.
Alternating(log) ==
    \A i \in 1..Len(log) :
        log[i] = IF i % 2 = 1 THEN "train/loss" ELSE "val/loss"
StepPrefix == <<"opt", "train/loss">>
CompleteSteps ==
    {StepPrefix \o <<"pull", "val/loss">>}
    \cup {StepPrefix \o <<e, "recreate", "pull", "val/loss">> : e \in PullFailures}

GvsSequence == <<"set_n", "on_epoch_end", "draw", "restore", "on_epoch_end">>
GvsProgress ==
    CASE pc = "gvs_reset" -> 1
      [] pc = "gvs_draw" -> 2
      [] pc \in {"gvs_predict", "gvs_restore"} -> 3
      [] pc = "gvs_reset2" -> 4
      [] pc = "ready" /\ err = "none" -> 5
      [] OTHER -> 2

C10_RetryOnce ==
    InFit =>
      /\ pc = "fit_except_val" =>
            /\ \E e \in PullFailures : stepEv = StepPrefix \o <<e>>
            /\ err = "none"
      /\ pc = "fit_val" =>
            \/ stepEv = StepPrefix \o <<"pull">>
            \/ \E e \in PullFailures : stepEv = StepPrefix \o <<e, "recreate", "pull">>
      /\ raisedAt = "val_pull" =>
            /\ pc = "ready"
            /\ \E e \in PullFailures :
                  stepEv = StepPrefix \o <<e, "recreate", err>>
            /\ err \in PullFailures
            /\ params = params0 + k
            /\ Len(wandb_log) = 2 * k - 1
            /\ wandb_log[Len(wandb_log)] = "train/loss"
      /\ err # "none" => raisedAt \in {"train_pull", "val_pull"}

C10_Witness ==
    /\ InFit /\ raisedAt = "val_pull" /\ V = 0
    /\ stepEv = StepPrefix \o <<"StopIteration", "recreate", "StopIteration">>
    /\ Len(wandb_log) = 2 * k - 1


\* ---- C3 as stated: for any H x W input both outputs are (H-4) x (W-4),
\* and l' is 1 exactly where the corresponding original label is 2.
C3_ShapeMinusFour ==
    ndone =>
      LET B == nl.shape[1]  H == nl.shape[2]  W == nl.shape[3] IN
        /\ nx_out.shape = <<B, H - 4, W - 4, Channels>>
        /\ nl_out.shape = <<B, H - 4, W - 4>>

\* ---- C3 (amended): for an H x W input with H >= 4 and W >= 4 both outputs
\* are (H-4) x (W-4); an axis shorter than 4 comes out with length 0.  The
\* cell (i, j) of either output is the input cell (i+2, j+2): for l' it is 1
\* if that label is 2 and 0 otherwise, so l' holds only 0 and 1.
C3_Normalizer ==
    ndone =>
      LET B == nl.shape[1]  H == nl.shape[2]  W == nl.shape[3]
          H2 == Max(H - 4, 0)  W2 == Max(W - 4, 0) IN
        /\ nx_out.shape = <<B, H2, W2, Channels>>
        /\ nl_out.shape = <<B, H2, W2>>
        /\ DOMAIN nl_out.at = Idx3(B, H2, W2)
        /\ DOMAIN nx_out.at = Idx4(B, H2, W2, Channels)
        /\ \A t \in Idx3(B, H2, W2) :
              /\ nl_out.at[t] \in {0, 1}
              /\ nl_out.at[t] = 1 <=> nl.at[<<t[1], t[2] + 2, t[3] + 2>>] = 2
        /\ \A t \in Idx4(B, H2, W2, Channels) :
              nx_out.at[t] = nx.at[<<t[1], t[2] + 2, t[3] + 2, t[4]>>]

C3_Witness ==
    /\ ndone /\ nl.shape = <<1, 6, 5>>
    /\ nl_out.shape = <<1, 2, 1>>
    /\ nl.at[<<1, 3, 3>>] = 2 /\ nl_out.at[<<1, 1, 1>>] = 1
    /\ nl.at[<<1, 4, 3>>] = 1 /\ nl_out.at[<<1, 2, 1>>] = 0

\* ---- C4: every value get_iou returns lies in [0, 1]: the intersection
\* count never exceeds the union count, and an empty union yields 1.
C4_IouBounds ==
    idone =>
      \A i \in DOMAIN iou_batch :
        /\ iou_batch[i].den > 0
        /\ 0 <= iou_batch[i].num
        /\ iou_batch[i].num <= iou_batch[i].den
        /\ UnionCount(Elem(EqClass(y_true, class_number), i),
                      Elem(EqClass(y_pred, class_number), i)) = 0
             => iou_batch[i] = [num |-> 1, den |-> 1]

C4_Witness ==
    /\ idone /\ y_true # y_pred
    /\ \E i \in DOMAIN iou_batch :
          0 < iou_batch[i].num /\ iou_batch[i].num < iou_batch[i].den

\* ---- C5 as stated (its example): get_iou(1, [[0,1],[1,1]], [[0,1],[1,1]])
\* yields the one value [1.0].
Literal2x2 == [shape |-> <<2, 2>>, flat |-> <<0, 1, 1, 1>>]
Single2x2 == [shape |-> <<1, 2, 2>>, flat |-> <<0, 1, 1, 1>>]
IsOne(q) == q.den > 0 /\ q.num = q.den

C5_ExampleOneValue ==
    (idone /\ class_number = 1 /\ y_true = Literal2x2 /\ y_pred = Literal2x2)
      => (Len(iou_batch) = 1 /\ IsOne(iou_batch[1]))

\* ---- C5 (amended): when y_true equals y_pred, get_iou returns one value
\* per batch element (per row of the first axis) and each value is 1.0,
\* whether the class occurs in the element or not.  The batch holding the
\* single map [[0,1],[1,1]] yields [1.0]; the array [[0,1],[1,1]] passed as
\* the batch has two elements and yields [1.0, 1.0].
C5_IdenticalMaps ==
    (idone /\ y_true = y_pred) =>
      /\ DOMAIN iou_batch = 1..y_true.shape[1]
      /\ \A i \in DOMAIN iou_batch : IsOne(iou_batch[i])
      /\ (class_number = 1 /\ y_true = Single2x2) =>
            iou_batch = <<[num |-> 3, den |-> 3]>>
      /\ (class_number = 1 /\ y_true = Literal2x2) =>
            iou_batch = <<[num |-> 1, den |-> 1], [num |-> 2, den |-> 2]>>

C5_Witness ==
    /\ idone /\ class_number = 1 /\ y_true = Single2x2 /\ y_pred = Single2x2
    /\ iou_batch = <<[num |-> 3, den |-> 3]>>

=============================================================================
